---- MODULE Spec2Model ----
(***************************************************************************)
(* Model of scikit-tracker's gap-closing solver (GapCloseSolver) on top of *)
(* the Trajectories table, and of the frame-by-frame solver.               *)
(*                                                                         *)
(* A trajectory table is a sequence of rows in row order.  A row is a      *)
(* record [t, label, x]: the index key (t_stamp, label) and a payload x    *)
(* that stands for the columns 't', 'x', 'y', 'z' of the record.           *)
(* Array positions are 1-based here where numpy's are 0-based; label       *)
(* values keep the code's values (a label l indexes position l + 1).       *)
(***************************************************************************)
EXTENDS Integers, Sequences, FiniteSets, TLC

\* ---------------------------------------------------------------- bounds
MaxT == 2
MaxLabel == 2
MaxGap == 3
MaxCost == 2

\* np.nan, the infeasible sentinel of a cost block
NaN == -1

\* gap_close_solver.py:81
percentile == 99

VARIABLES
    input,        \* the table the solver is constructed on
    maximum_gap,  \* GapCloseSolver.maximum_gap
    link_cf,      \* the link cost function: (out label, in label) -> cost
    trajs,        \* GapCloseSolver.trajs: [rows, columns]
    context,      \* link_cf.context: [set, idxs_in, idxs_out]
    link_mat,     \* link_block.mat (<<>> before it is built)
    alt_cost,     \* birth_cf/death_cf context['cost'], in hundredths
    out_links,    \* cm.out_links (<<>> before solve)
    pc,           \* "ready", "returned", "raised"; "linking", "linked"
    run,          \* 1 for the first solver, 2 for a second fresh solver
    first,        \* rows returned by the first solver's track()
    true_trajs,   \* the table a ByFrameSolver is constructed on
    max_speed,    \* ByFrameSolver max_speed
    penalty,      \* ByFrameSolver penalty
    frame_label,  \* per processed frame, the label given to each of its spots
    t_in,         \* the earlier frame of the next frame pair
    last_frame,   \* the last t_stamp of the ByFrameSolver's table
    frame_links,  \* per processed frame pair, the out_links of its solve
    progress_bar, \* track(progress_bar=...)
    progress,     \* the updates written to progress_bar_out
    given_index,  \* index names of the table a solver is constructed on
    given_columns,\* column names of that table
    coords,       \* the coords argument of GapCloseSolver.__init__
    ctor_pc,      \* "new", "constructed" or "raised"
    ctor_error,   \* the ValueError raised: [kind, names], or NoError
    cf_checked,   \* the cost functions have been looked at
    heap,         \* the Trajectories objects: object id -> rows; 1 is self
    op_self,      \* the receiver's rows when the operation was called
    op_call,      \* the operation called: [name, inplace, arg]
    op_ret,       \* the object id returned, None for None
    op_pc,        \* "start", "returned" or "raised"
    h5,           \* the HDF5 file at store_path: name -> stored object
    data,         \* OIOMetadata.data, the in-memory metadata
    python,       \* major version of the interpreter (sys.version_info[0])
    oio_log,      \* the operations performed on the ObjectsIO, in order
    oio_raised    \* the last operation raised

gap_vars == <<input, maximum_gap, link_cf, trajs, context, link_mat, alt_cost,
              out_links, run, first>>

frame_vars == <<true_trajs, max_speed, penalty, frame_label, t_in,
                last_frame, frame_links, progress_bar, progress>>

ctor_vars == <<given_index, given_columns, coords, ctor_pc, ctor_error,
               cf_checked>>

ops_vars == <<heap, op_self, op_call, op_ret, op_pc>>

oio_vars == <<h5, data, python, oio_log, oio_raised>>

\* the variables that the actions of one component leave alone
beside_gap == <<frame_vars, ctor_vars, ops_vars, oio_vars>>

beside_frame == <<gap_vars, ctor_vars, ops_vars, oio_vars>>

beside_ops == <<gap_vars, frame_vars, ctor_vars, oio_vars, pc>>

beside_oio == <<gap_vars, frame_vars, ctor_vars, ops_vars, pc>>

beside_ctor == <<gap_vars, frame_vars, ops_vars, oio_vars, pc>>

vars == <<gap_vars, frame_vars, ctor_vars, ops_vars, oio_vars, pc>>

\* ------------------------------------------------------------ sequences
Range(s) == {s[i] : i \in DOMAIN s}

SeqMax(s) == CHOOSE m \in Range(s) : \A v \in Range(s) : v <= m

\* the k-th smallest element of a finite set of integers
Nth(S, k) == CHOOSE v \in S : Cardinality({w \in S : w <= v}) = k

\* the elements of a set of integers in ascending order
Ascending(S) == [k \in 1..Cardinality(S) |-> Nth(S, k)]

\* position of the first occurrence of v in s
IndexOf(s, v) == CHOOSE i \in DOMAIN s : s[i] = v /\ \A j \in 1..(i - 1) : s[j] # v

\* numpy/pandas unique(): distinct values in order of first appearance
Unique(s) ==
    LET firsts == {i \in DOMAIN s : \A j \in 1..(i - 1) : s[j] # s[i]}
    IN  [k \in 1..Cardinality(firsts) |-> s[Nth(firsts, k)]]

\* ------------------------------------------------------ Trajectories
LabelValues(rows) == [i \in DOMAIN rows |-> rows[i].label]

\* Trajectories.labels: index.get_level_values('label').unique()
labels(rows) == Unique(LabelValues(rows))

\* a stable sort of the rows by a key <<k1, k2>>
StableSort(rows, key(_)) ==
    LET n == Len(rows)
        Before(i, j) ==
            \/ key(rows[i])[1] < key(rows[j])[1]
            \/ /\ key(rows[i])[1] = key(rows[j])[1]
               /\ \/ key(rows[i])[2] < key(rows[j])[2]
                  \/ key(rows[i])[2] = key(rows[j])[2] /\ i < j
        Rank(i) == Cardinality({j \in 1..n : Before(j, i)}) + 1
    IN  [k \in 1..n |-> rows[CHOOSE i \in 1..n : Rank(i) = k]]

KeyTimeLabel(r) == <<r.t, r.label>>
KeyLabelTime(r) == <<r.label, r.t>>

\* DataFrame.sort_index() on the (t_stamp, label) index
sort_index(rows) == StableSort(rows, KeyTimeLabel)

\* Trajectories.segment_idxs: groupby(level='label').groups, label -> the
\* (t_stamp, label) keys of the segment in row order
segment_idxs(rows) ==
    [l \in Range(LabelValues(rows)) |->
        LET seg == SelectSeq(rows, LAMBDA r : r.label = l)
        IN  [i \in DOMAIN seg |-> <<seg[i].t, seg[i].label>>]]

\* the order in which segment_idxs.values() yields the groups: by group key
group_order(rows) == Ascending(Range(LabelValues(rows)))

\* a renumbering by rank of the label value
relabel_fromzero_ranked(rows) ==
    [i \in DOMAIN rows |->
        [rows[i] EXCEPT !.label =
            Cardinality({l \in Range(LabelValues(rows)) : l < rows[i].label})]]

\* Trajectories.relabel_fromzero(inplace=True): label -> rank of its first
\* appearance in row order; the row order is kept
relabel_fromzero(rows) ==
    LET old_lbls == LabelValues(rows)
        uniq == Unique(old_lbls)
    IN  [i \in DOMAIN rows |->
            [rows[i] EXCEPT !.label = IndexOf(uniq, old_lbls[i]) - 1]]

\* Trajectories.relabel(new_labels, inplace=True): the 'new_label' column
\* becomes the label level, the index is sorted, labels restart from zero
relabel(rows, new_labels) ==
    LET moved == [i \in DOMAIN rows |-> [rows[i] EXCEPT !.label = new_labels[i]]]
    IN  relabel_fromzero(sort_index(moved))

\* two rows with the same (t_stamp, label)
HasDuplicateKey(rows) ==
    \E i, j \in DOMAIN rows : i < j /\ rows[i].t = rows[j].t /\ rows[i].label = rows[j].label

\* --------------------------------------------------- the input tables
Frames == 0..MaxT

\* the payload columns every input table carries
InputColumns == {"t", "x", "y", "z"}

\* a set of rows as a sequence ordered by a key <<k1, k2>> (keys distinct)
Ordered(S, key(_)) ==
    LET Before(a, b) ==
            \/ key(a)[1] < key(b)[1]
            \/ key(a)[1] = key(b)[1] /\ key(a)[2] <= key(b)[2]
    IN  [k \in 1..Cardinality(S) |->
            CHOOSE r \in S : Cardinality({q \in S : Before(q, r)}) = k]

\* label -> <<first frame, last frame>> of its segment
SegmentMaps ==
    UNION {[L -> {iv \in Frames \X Frames : iv[1] <= iv[2]}] :
              L \in SUBSET (0..MaxLabel)}

SpotsOf(segs) ==
    UNION {{[t |-> tt, label |-> l, x |-> l] : tt \in segs[l][1]..segs[l][2]} :
              l \in DOMAIN segs}

\* the two row orders a table is given in: sorted on (t_stamp, label), as
\* sort_index leaves it, or segment after segment
InputRows ==
    {Ordered(SpotsOf(segs), KeyTimeLabel) : segs \in SegmentMaps} \cup
    {Ordered(SpotsOf(segs), KeyLabelTime) : segs \in SegmentMaps}

\* the table of the gap closure scenario: frames 0-2 and frames 5-7
ScenarioRows ==
    Ordered({[t |-> tt, label |-> 0, x |-> 0] : tt \in 0..2} \cup
            {[t |-> tt, label |-> 1, x |-> 1] : tt \in 5..7}, KeyTimeLabel)

Table(rows) == [rows |-> rows, columns |-> InputColumns]

\* ------------------------------------------- GapCloseSolver._get_candidates
\* bounds: (first t_stamp, last t_stamp) of each group, in group order
bounds(rows) ==
    LET groups == segment_idxs(rows)
        order == group_order(rows)
    IN  [k \in DOMAIN order |->
            <<groups[order[k]][1][1], groups[order[k]][Len(groups[order[k]])][1]>>]

\* the window test of np.argwhere((gaps_size > 0) * (gaps_size < max_gap))
InWindow(gap, max_gap) == gap > 0 /\ gap < max_gap

\* the t_stamp paired with the label of a matched "in" segment
in_time(start_times, stop_times, i) == start_times[i]

\* the t_stamp paired with the label of a matched "out" segment
out_time(start_times, stop_times, j) == start_times[j]

\* the position in the bounds array that a label value indexes
bounds_position(lbls, i) == lbls[i] + 1

\* _get_candidates(): [error, in_idxs, out_idxs].  error: bounds[:, 0] needs
\* a 2-d array (at least one segment), and start_times[ss_out],
\* stop_times[ss_in] index the bounds BY LABEL VALUE, which raises
\* IndexError for a label that is no position of the array
get_candidates(rows, max_gap) ==
    LET lbls == labels(rows)
        n == Len(lbls)
        b == bounds(rows)
        start_times == [k \in DOMAIN b |-> b[k][1]]
        stop_times == [k \in DOMAIN b |-> b[k][2]]
    IN  IF Len(rows) = 0 \/ \E i \in 1..n : bounds_position(lbls, i) \notin DOMAIN b
        THEN [error |-> TRUE, in_idxs |-> <<>>, out_idxs |-> <<>>]
        ELSE
        LET \* gaps_size[i, j] = start_times[labels[i]] - stop_times[labels[j]]
            gaps_size == [p \in (1..n) \X (1..n) |->
                             start_times[bounds_position(lbls, p[1])]
                               - stop_times[bounds_position(lbls, p[2])]]
            M == {p \in (1..n) \X (1..n) : InWindow(gaps_size[p], max_gap)}
            \* np.argwhere lists the matches in row-major order
            Upto(p) == {q \in M : q[1] < p[1] \/ (q[1] = p[1] /\ q[2] <= p[2])}
            matches == [k \in 1..Cardinality(M) |->
                           CHOOSE p \in M : Cardinality(Upto(p)) = k]
        IN  [error |-> FALSE,
             in_idxs |-> [k \in DOMAIN matches |->
                 <<in_time(start_times, stop_times, matches[k][1]), lbls[matches[k][1]]>>],
             out_idxs |-> [k \in DOMAIN matches |->
                 <<out_time(start_times, stop_times, matches[k][2]), lbls[matches[k][2]]>>]]

\* the pairs with the two lists taken for each other
CandidatePairsSwapped(idxs_in, idxs_out) ==
    {<<idxs_in[k][2], idxs_out[k][2]>> : k \in DOMAIN idxs_in \cap DOMAIN idxs_out}

\* the (out label, in label) pairs the returned lists describe
CandidatePairs(idxs_in, idxs_out) ==
    {<<idxs_out[k][2], idxs_in[k][2]>> : k \in DOMAIN idxs_in \cap DOMAIN idxs_out}

\* the pairs _get_candidates hands to the cost function (none when it raises)
GivenPairs(rows, max_gap) ==
    LET cand == get_candidates(rows, max_gap)
    IN  CandidatePairs(cand.in_idxs, cand.out_idxs)

\* ------------------------------------------------- the cost blocks
CostValues == {NaN} \cup (1..MaxCost)

\* LinkBlock(labels, labels, link_cf).mat, rows the segments that end (out),
\* columns the segments that start (in); only candidate pairs are costed
LinkBlockMat(rows, idxs_in, idxs_out, cf) ==
    LET lbls == labels(rows)
        pairs == CandidatePairs(idxs_in, idxs_out)
    IN  [r \in DOMAIN lbls |->
            [c \in DOMAIN lbls |->
                IF <<lbls[r], lbls[c]>> \in pairs /\ <<lbls[r], lbls[c]>> \in DOMAIN cf
                THEN cf[<<lbls[r], lbls[c]>>]
                ELSE NaN]]

FiniteCells(mat) ==
    {p \in (DOMAIN mat) \X (DOMAIN mat) : mat[p[1]][p[2]] # NaN}

\* np.ma.masked_invalid(mat).compressed(), sorted ascending
link_costs(mat) ==
    LET F == FiniteCells(mat)
        Upto(p) == {q \in F : \/ mat[q[1]][q[2]] < mat[p[1]][p[2]]
                              \/ /\ mat[q[1]][q[2]] = mat[p[1]][p[2]]
                                 /\ (q[1] < p[1] \/ (q[1] = p[1] /\ q[2] <= p[2]))}
    IN  [k \in 1..Cardinality(F) |->
            LET p == CHOOSE q \in F : Cardinality(Upto(q)) = k
            IN  mat[p[1]][p[2]]]

\* np.percentile(costs, q) with linear interpolation, in hundredths;
\* costs is sorted and not empty
Percentile(costs, q) ==
    LET pos == q * (Len(costs) - 1)
        lo == pos \div 100
        fr == pos % 100
    IN  IF fr = 0 THEN 100 * costs[lo + 1]
        ELSE 100 * costs[lo + 1] + fr * (costs[lo + 2] - costs[lo + 1])

\* ------------------------------------------------------- CostMatrix
\* The composite matrix of blocks_structure is
\*     [ link_block   death_block ]
\*     [ birth_block  None        ]
\* with n = Len(mat) link rows and columns.  A set L of link cells, no two
\* in one row or column, stands for the assignment that matches the cells
\* of L, every other link row to its own death_block diagonal cell and
\* every other link column to its own birth_block diagonal cell; the
\* diagonal rows and columns this frees are paired in the lower right block.
Matchings(mat) ==
    {L \in SUBSET FiniteCells(mat) :
        \A p, q \in L : p # q => (p[1] # q[1] /\ p[2] # q[2])}

RECURSIVE SumOfCells(_, _)
SumOfCells(mat, L) ==
    IF L = {} THEN 0
    ELSE LET p == CHOOSE q \in L : TRUE
         IN  mat[p[1]][p[2]] + SumOfCells(mat, L \ {p})

\* cost of the matched link, birth and death cells, in hundredths
TotalCost(mat, alt, L) ==
    100 * SumOfCells(mat, L) + alt * 2 * (Len(mat) - Cardinality(L))

\* the assignments of minimum total cost
MinCostMatchings(mat, alt) ==
    LET all == Matchings(mat)
        cost == [L \in all |-> TotalCost(mat, alt, L)]
    IN  {L \in all : \A L2 \in all : cost[L] <= cost[L2]}

\* out_links when the alternatives freed by a link stay matched to their
\* own diagonal cell instead of being paired in the lower right block
OutLinksUnpaired(n, L) ==
    [c \in 1..(2 * n) |->
        IF c <= n
        THEN IF \E p \in L : p[2] = c
             THEN (CHOOSE p \in L : p[2] = c)[1]
             ELSE n + c
        ELSE c - n]

\* cm.out_links: for each column of the composite matrix its matched row
OutLinksOf(n, L) ==
    [c \in 1..(2 * n) |->
        IF c <= n
        THEN IF \E p \in L : p[2] = c
             THEN (CHOOSE p \in L : p[2] = c)[1]
             ELSE n + c
        ELSE IF \E p \in L : p[1] = c - n
             THEN n + (CHOOSE p \in L : p[1] = c - n)[2]
             ELSE c - n]

\* a solver that returns any one-to-one assignment, optimal or not
solve_any(mat, alt) == {OutLinksOf(Len(mat), L) : L \in Matchings(mat)}

\* CostMatrix.solve(): the out_links it may leave
solve(mat, alt) == {OutLinksOf(Len(mat), L) : L \in MinCostMatchings(mat, alt)}

\* the assignment in which every candidate takes its own alternative
do_nothing(n) == OutLinksOf(n, {})

\* --------------------------------------------- GapCloseSolver.assign
\* the no-merge branch without the "+ 1"
no_merge_label_reused(unique_new) == SeqMax(unique_new)

\* the no-merge branch numbering from the minimum instead of the maximum
no_merge_label_zero(unique_new) == 0

\* "no merge": unique_new[idx_out] = unique_new.max() + 1
no_merge_label(unique_new) == SeqMax(unique_new) + 1

\* the merge branch taking a fresh label, so that no link is ever applied
merge_label_fresh(unique_new, idx_in) == SeqMax(unique_new) + 1

\* the merge branch reading the first position instead of position idx_in
merge_label_first(unique_new, idx_in) == unique_new[1]

\* "do merge": unique_new[idx_out] = unique_new[idx_in]
merge_label(unique_new, idx_in) == unique_new[idx_in]

\* the loop over enumerate(cm.out_links[:last_out_link]), from idx_out on
RECURSIVE assign_loop(_, _, _, _)
assign_loop(unique_new, links, idx_out, last_in_link) ==
    IF idx_out > last_in_link THEN unique_new
    ELSE LET idx_in == links[idx_out]
             new_label == IF idx_in > last_in_link
                          THEN no_merge_label(unique_new)
                          ELSE merge_label(unique_new, idx_in)
         IN  assign_loop([unique_new EXCEPT ![idx_out] = new_label],
                         links, idx_out + 1, last_in_link)

\* unique_new after the loop
unique_new_of(rows, links) ==
    assign_loop(labels(rows), links, 1, Len(labels(rows)))

\* new_labels[old_labels == old] = new, for zip(unique_old, unique_new)
new_labels_of(rows, links) ==
    LET unique_old == labels(rows)
        unique_new == unique_new_of(rows, links)
    IN  [i \in DOMAIN rows |-> unique_new[IndexOf(unique_old, rows[i].label)]]

\* AbstractSolver.relabel_trajs(new_labels): trajs.relabel(new_labels)
relabel_trajs(rows, new_labels) == relabel(rows, new_labels)

\* assign(): the rows of self.trajs afterwards
assign(rows, links) == relabel_trajs(rows, new_labels_of(rows, links))

\* ------------------------------------------------ GapCloseSolver.track
\* no ObjectsIO has been constructed
OioIdle ==
    /\ h5 = <<>>
    /\ data = <<>>
    /\ python = 3
    /\ oio_log = <<>>
    /\ oio_raised = FALSE

\* Python's None as an object id
None == 0

NoCall == [name |-> "none", inplace |-> FALSE, arg |-> <<>>]

\* no Trajectories operation is under way
OpsIdle ==
    /\ heap = <<>>
    /\ op_self = <<>>
    /\ op_call = NoCall
    /\ op_ret = None
    /\ op_pc = "idle"

Unset == [set |-> FALSE, idxs_in |-> <<>>, idxs_out |-> <<>>]

\* no ByFrameSolver is at work
FrameIdle ==
    /\ true_trajs = <<>>
    /\ max_speed = 0
    /\ penalty = 0
    /\ frame_label = <<>>
    /\ t_in = 0
    /\ last_frame = 0
    /\ frame_links = <<>>
    /\ progress_bar = FALSE
    /\ progress = <<>>

NoError == [kind |-> "none", names |-> {}]

\* the constructor's structure check is not under study: the table has the
\* required structure and the solver is constructed
CtorIdle ==
    /\ given_index = <<"t_stamp", "label">>
    /\ given_columns = {"t", "x", "y", "z"}
    /\ coords = <<"x", "y", "z">>
    /\ ctor_pc = "constructed"
    /\ ctor_error = NoError
    /\ cf_checked = TRUE

\* the tables and gaps a solver is constructed on
Configurations ==
    (InputRows \X (1..MaxGap)) \cup ({ScenarioRows} \X {2, 5})

Init ==
    \E cfg \in Configurations :
        /\ input = Table(cfg[1])
        /\ maximum_gap = cfg[2]
        /\ link_cf \in [GivenPairs(cfg[1], cfg[2]) -> CostValues]
        /\ trajs = Table(cfg[1])
        /\ context = Unset
        /\ link_mat = <<>>
        /\ alt_cost = NaN
        /\ out_links = <<>>
        /\ pc = "ready"
        /\ run = 1
        /\ first = <<>>
        /\ FrameIdle
        /\ CtorIdle
        /\ OpsIdle
        /\ OioIdle

\* the columns after self.trajs['new_label'] = ...
WithNewLabel(columns) == columns \cup {"new_label"}

\* a relabel() that leaves the 'new_label' column behind
AfterRelabelKept(columns) == columns

\* the columns after relabel(): set_index moves 'new_label' into the index
AfterRelabel(columns) == columns \ {"new_label"}

\* _get_candidates raises: the index arrays do not fit the bounds array
TrackIndexError ==
    /\ pc = "ready"
    /\ get_candidates(trajs.rows, maximum_gap).error
    /\ pc' = "raised"
    /\ UNCHANGED <<input, maximum_gap, link_cf, trajs, context, link_mat,
                   alt_cost, out_links, run, first>>
    /\ UNCHANGED beside_gap

\* if not len(idxs_in): return self.trajs
TrackNoCandidates ==
    /\ pc = "ready"
    /\ LET cand == get_candidates(trajs.rows, maximum_gap)
       IN  /\ ~cand.error
           /\ Len(cand.in_idxs) = 0
           /\ context' = [set |-> TRUE, idxs_in |-> cand.in_idxs,
                          idxs_out |-> cand.out_idxs]
    /\ pc' = "returned"
    /\ UNCHANGED <<input, maximum_gap, link_cf, trajs, link_mat, alt_cost,
                   out_links, run, first>>
    /\ UNCHANGED beside_gap

\* every candidate is infeasible: np.percentile of an empty array raises
TrackEmptyPercentile ==
    /\ pc = "ready"
    /\ LET cand == get_candidates(trajs.rows, maximum_gap)
           mat == LinkBlockMat(trajs.rows, cand.in_idxs, cand.out_idxs, link_cf)
       IN  /\ ~cand.error
           /\ Len(cand.in_idxs) > 0
           /\ FiniteCells(mat) = {}
           /\ context' = [set |-> TRUE, idxs_in |-> cand.in_idxs,
                          idxs_out |-> cand.out_idxs]
           /\ link_mat' = mat
    /\ trajs' = [trajs EXCEPT !.columns = WithNewLabel(trajs.columns)]
    /\ pc' = "raised"
    /\ UNCHANGED <<input, maximum_gap, link_cf, alt_cost, out_links, run, first>>
    /\ UNCHANGED beside_gap

\* every candidate is infeasible and np.percentile returns nan: no cell of
\* the composite matrix is finite, every candidate falls back to its own
\* diagonal alternative
TrackFallback ==
    /\ pc = "ready"
    /\ LET cand == get_candidates(trajs.rows, maximum_gap)
           mat == LinkBlockMat(trajs.rows, cand.in_idxs, cand.out_idxs, link_cf)
       IN  /\ ~cand.error
           /\ Len(cand.in_idxs) > 0
           /\ FiniteCells(mat) = {}
           /\ context' = [set |-> TRUE, idxs_in |-> cand.in_idxs,
                          idxs_out |-> cand.out_idxs]
           /\ link_mat' = mat
           /\ alt_cost' = NaN
           /\ out_links' = do_nothing(Len(mat))
    /\ trajs' = [rows |-> assign(trajs.rows, out_links'),
                 columns |-> AfterRelabel(WithNewLabel(trajs.columns))]
    /\ pc' = "returned"
    /\ UNCHANGED <<input, maximum_gap, link_cf, run, first>>
    /\ UNCHANGED beside_gap

\* the blocks are built, the cost matrix is solved, assign() relabels
TrackAssign ==
    /\ pc = "ready"
    /\ LET cand == get_candidates(trajs.rows, maximum_gap)
           mat == LinkBlockMat(trajs.rows, cand.in_idxs, cand.out_idxs, link_cf)
       IN  /\ ~cand.error
           /\ Len(cand.in_idxs) > 0
           /\ FiniteCells(mat) # {}
           /\ context' = [set |-> TRUE, idxs_in |-> cand.in_idxs,
                          idxs_out |-> cand.out_idxs]
           /\ link_mat' = mat
           /\ alt_cost' = Percentile(link_costs(mat), percentile)
           /\ out_links' \in solve(mat, alt_cost')
    /\ trajs' = [rows |-> assign(trajs.rows, out_links'),
                 columns |-> AfterRelabel(WithNewLabel(trajs.columns))]
    /\ pc' = "returned"
    /\ UNCHANGED <<input, maximum_gap, link_cf, run, first>>
    /\ UNCHANGED beside_gap

\* a second, fresh solver is constructed on the same table with the same
\* configuration
FreshSolver ==
    /\ pc = "returned"
    /\ run = 1
    /\ first' = trajs.rows
    /\ run' = 2
    /\ trajs' = input
    /\ context' = Unset
    /\ link_mat' = <<>>
    /\ alt_cost' = NaN
    /\ out_links' = <<>>
    /\ pc' = "ready"
    /\ UNCHANGED <<input, maximum_gap, link_cf>>
    /\ UNCHANGED beside_gap

Next ==
    \/ TrackIndexError
    \/ TrackNoCandidates
    \/ TrackEmptyPercentile
    \/ TrackFallback
    \/ TrackAssign
    \/ FreshSolver

Spec == Init /\ [][Next]_vars

\* ------------------------------------------------------- ByFrameSolver
MaxTraj == 2
MaxPos == 2
MaxV == 1
MaxSpeed == 2
MaxPenalty == 2

Abs(a) == IF a < 0 THEN -a ELSE a

\* a true trajectory: a straight line, detected in every frame, no noise
Lines == [x0 : 0..MaxPos, v : (-MaxV)..MaxV]

PositionAt(line, t) == line.x0 + line.v * t

LineKey(line) == line.x0 * (2 * MaxV + 1) + line.v + MaxV

\* the tables of true trajectories, the trajectories in a fixed order
TrueTables ==
    UNION {{tt \in [1..k -> Lines] :
               \A i \in 1..(k - 1) : LineKey(tt[i]) <= LineKey(tt[i + 1])} :
              k \in 1..MaxTraj}

\* the link cost with the cutoff comparison reversed
brownian_cost_reversed(pos_out, pos_in, speed) ==
    IF Abs(pos_in - pos_out) < speed
    THEN NaN
    ELSE (pos_in - pos_out) * (pos_in - pos_out)

\* the link cost without the maximum-speed cutoff
brownian_cost_ungated(pos_out, pos_in, speed) ==
    (pos_in - pos_out) * (pos_in - pos_out)

\* brownian-motion link cost: the squared displacement, infeasible when
\* the implied speed exceeds the cutoff (frames are one time unit apart)
brownian_cost(pos_out, pos_in, speed) ==
    IF Abs(pos_in - pos_out) > speed
    THEN NaN
    ELSE (pos_in - pos_out) * (pos_in - pos_out)

\* LINK block of the frame pair (t, t + 1): rows are the spots of frame t,
\* columns the spots of frame t + 1
FrameLinkBlock(table, t, speed) ==
    [r \in DOMAIN table |->
        [c \in DOMAIN table |->
            brownian_cost(PositionAt(table[r], t), PositionAt(table[c], t + 1),
                          speed)]]

\* a birth starts a new label
birth_label(used) == SeqMax(used) + 1

\* a continuing object that takes the label of the first spot of the frame
continued_label_first(labels_out, r) == labels_out[1]

\* a continuing object takes the label of the spot it is linked to
continued_label(labels_out, r) == labels_out[r]

\* labels of the spots of frame t + 1, columns c..n, given the labels
\* labels_out of frame t and the labels used so far
RECURSIVE frame_labels(_, _, _, _)
frame_labels(labels_out, used, links, c) ==
    IF c > Len(labels_out) THEN <<>>
    ELSE LET lbl == IF links[c] <= Len(labels_out)
                    THEN continued_label(labels_out, links[c])
                    ELSE birth_label(used)
         IN  <<lbl>> \o frame_labels(labels_out, Append(used, lbl), links, c + 1)

\* number of links the assignment accepts in an n x n LINK block
accepted_links(links, n) == Cardinality({c \in 1..n : links[c] <= n})

\* every label given so far, frame after frame
RECURSIVE UsedLabels(_)
UsedLabels(per_frame) ==
    IF per_frame = <<>> THEN <<>>
    ELSE per_frame[1] \o UsedLabels(Tail(per_frame))

\* no GapCloseSolver is at work
GapIdle ==
    /\ input = Table(<<>>)
    /\ maximum_gap = 1
    /\ link_cf = <<>>
    /\ trajs = Table(<<>>)
    /\ context = Unset
    /\ link_mat = <<>>
    /\ alt_cost = NaN
    /\ out_links = <<>>
    /\ run = 1
    /\ first = <<>>

InitByFrame ==
    /\ true_trajs \in TrueTables
    /\ max_speed \in 0..MaxSpeed
    /\ penalty \in 0..MaxPenalty
    /\ frame_label = <<[i \in DOMAIN true_trajs |-> i - 1]>>
    /\ t_in = 0
    /\ last_frame \in 1..MaxT
    /\ frame_links = <<>>
    /\ progress_bar \in BOOLEAN
    /\ progress = <<>>
    /\ pc = "linking"
    /\ GapIdle
    /\ CtorIdle
    /\ OpsIdle
    /\ OioIdle

\* an update that reports the pairs done instead of the pairs begun
progress_update_done(i, P) ==
    [num |-> 100 * (i + 1), den |-> P, t_in |-> i, t_out |-> i + 1]

\* the update written for the i-th frame pair of P: percentage 100 * i / P
\* (as the fraction num / den), t_in and t_out
progress_update(i, P) ==
    [num |-> 100 * i, den |-> P, t_in |-> i, t_out |-> i + 1]

\* one frame pair (t_in, t_in + 1): report, build the blocks, solve, assign
OneFrame ==
    /\ pc = "linking"
    /\ t_in < last_frame
    /\ \E links \in solve(FrameLinkBlock(true_trajs, t_in, max_speed),
                          100 * penalty) :
           /\ frame_label' = Append(frame_label,
                                    frame_labels(frame_label[t_in + 1],
                                                 UsedLabels(frame_label), links, 1))
           /\ frame_links' = Append(frame_links, links)
    /\ progress' = IF progress_bar
                   THEN Append(progress, progress_update(t_in, last_frame))
                   ELSE progress
    /\ t_in' = t_in + 1
    /\ UNCHANGED <<true_trajs, max_speed, penalty, last_frame, progress_bar, pc>>
    /\ UNCHANGED beside_frame

\* all frame pairs are processed: track() returns the relabeled table
TrackReturn ==
    /\ pc = "linking"
    /\ t_in = last_frame
    /\ pc' = "linked"
    /\ UNCHANGED frame_vars
    /\ UNCHANGED beside_frame

NextByFrame ==
    \/ OneFrame
    \/ TrackReturn

SpecByFrame == InitByFrame /\ [][NextByFrame]_vars

\* ================================================================ claims
\* what the claims speak of, read off the tables themselves
SegmentLabels(rows) == Range(LabelValues(rows))

\* first and last frame of the segment that carries label l
StartTime(rows, l) ==
    CHOOSE tt \in {r.t : r \in Range(rows)} :
        /\ \E r \in Range(rows) : r.label = l /\ r.t = tt
        /\ \A r \in Range(rows) : r.label = l => tt <= r.t

StopTime(rows, l) ==
    CHOOSE tt \in {r.t : r \in Range(rows)} :
        /\ \E r \in Range(rows) : r.label = l /\ r.t = tt
        /\ \A r \in Range(rows) : r.label = l => r.t <= tt

\* the (out, in) pairs of segments with 0 < start(in) - stop(out) < max_gap
PairsInWindow(rows, max_gap) ==
    {p \in SegmentLabels(rows) \X SegmentLabels(rows) :
        /\ 0 < StartTime(rows, p[2]) - StopTime(rows, p[1])
        /\ StartTime(rows, p[2]) - StopTime(rows, p[1]) < max_gap}

\* the labels are exactly 0..n-1
DenseLabels(rows) ==
    SegmentLabels(rows) = 0..(Cardinality(SegmentLabels(rows)) - 1)

\* track() has run to its end, by return or by exception
TrackEnded == pc \in {"returned", "raised"}

\* track() has solved a cost matrix and assigned
Solved == pc = "returned" /\ out_links # <<>>

\* the label that the records of input segment l carry in self.trajs
FinalLabel(l) == (CHOOSE r \in Range(trajs.rows) : r.x = l).label

\* position of input segment l in the label array
Position(l) == IndexOf(labels(input.rows), l)

NumSegments == Len(labels(input.rows))

\* C1: if no pair of segments is a gap-closing candidate, track() returns
\* the table with the same index, columns and values, and raises no error
C1_NoCandidateNoOp ==
    (TrackEnded /\ PairsInWindow(input.rows, maximum_gap) = {})
        => (pc = "returned" /\ trajs = input)

\* C1 restricted to the tables whose labels are 0..n-1
C1_OnDenseLabels ==
    (TrackEnded /\ DenseLabels(input.rows) /\ input.rows # <<>>
                /\ PairsInWindow(input.rows, maximum_gap) = {})
        => (pc = "returned" /\ trajs = input)

\* C2: a pair (out, in) is returned as a candidate iff
\* 0 < start(in) - stop(out) < maximum_gap; the two lists have equal length
\* and position k of both describes one pair
C2_CandidatesIffInWindow ==
    TrackEnded =>
        /\ Len(context.idxs_in) = Len(context.idxs_out)
        /\ CandidatePairs(context.idxs_in, context.idxs_out)
               = PairsInWindow(input.rows, maximum_gap)
        /\ Cardinality(CandidatePairs(context.idxs_in, context.idxs_out))
               = Len(context.idxs_in)

\* C2 restricted to the runs in which _get_candidates returns
C2_WhenReturned ==
    (TrackEnded /\ context.set) =>
        /\ Len(context.idxs_in) = Len(context.idxs_out)
        /\ CandidatePairs(context.idxs_in, context.idxs_out)
               = PairsInWindow(input.rows, maximum_gap)
        /\ Cardinality(CandidatePairs(context.idxs_in, context.idxs_out))
               = Len(context.idxs_in)

\* the link cost function finds every candidate feasible
AllFeasible == \A p \in DOMAIN link_cf : link_cf[p] # NaN

\* C3: the scenario table (frames 0-2 and 5-7, a feasible continuation)
\* comes back with one single label for maximum_gap = 5 and with two
\* different labels for maximum_gap = 2
C3_GapClosureScenario ==
    (input.rows = ScenarioRows /\ AllFeasible /\ TrackEnded) =>
        /\ pc = "returned"
        /\ maximum_gap = 5 => Cardinality(SegmentLabels(trajs.rows)) = 1
        /\ maximum_gap = 2 => FinalLabel(0) # FinalLabel(1)
        /\ Len(trajs.rows) = Len(ScenarioRows)

\* the scenario table with maximum_gap = 5, its two segments merged
C3_Witness ==
    /\ input.rows = ScenarioRows
    /\ maximum_gap = 5
    /\ Solved
    /\ FinalLabel(0) = FinalLabel(1)

\* C4: whenever the solved assignment links an "out" segment to an "in"
\* segment in the LINK block, all records of both carry the same label
\* afterwards, whatever the positions of the two in the label array
C4_LinkedShareLabel ==
    Solved =>
        \A c \in 1..NumSegments :
            out_links[c] <= NumSegments =>
                FinalLabel(labels(input.rows)[c])
                    = FinalLabel(labels(input.rows)[out_links[c]])

\* C4 restricted to links whose partner stands earlier in the label array
C4_PartnerLower ==
    Solved =>
        \A c \in 1..NumSegments :
            out_links[c] < c =>
                FinalLabel(labels(input.rows)[c])
                    = FinalLabel(labels(input.rows)[out_links[c]])

LinkPositions == 1..NumSegments

\* column c (an "in" segment) is matched in the LINK block
LinkedColumn(c) == out_links[c] <= NumSegments

\* row r (an "out" segment) is matched to its own death alternative
DeadRow(r) == out_links[NumSegments + r] = r

\* the segments at positions a and b are joined by an accepted link
Joined(a, b) ==
    \/ LinkedColumn(a) /\ out_links[a] = b
    \/ LinkedColumn(b) /\ out_links[b] = a

\* the positions a chain of accepted links reaches from the set S
RECURSIVE ChainFrom(_)
ChainFrom(S) ==
    LET more == S \cup {b \in LinkPositions : \E a \in S : Joined(a, b)}
    IN  IF more = S THEN S ELSE ChainFrom(more)

FinalLabelAt(a) == FinalLabel(labels(input.rows)[a])

\* two "out" rows with a finite link cost to the same "in" column
TwoOutsOneIn(r1, r2, c) ==
    /\ r1 # r2
    /\ link_mat[r1][c] # NaN
    /\ link_mat[r2][c] # NaN

\* no "in" is assigned to two "out" and no "out" to two "in"
OneToOne ==
    \A c1, c2 \in LinkPositions :
        (c1 # c2 /\ LinkedColumn(c1)) => out_links[c1] # out_links[c2]

\* C6 as stated: of two "out" segments with a finite link cost to one "in"
\* segment at most one is linked to it, the other is assigned its own death
\* alternative, and the "in" segment shares its label with at most one
C6_MergeScenario ==
    Solved =>
        /\ OneToOne
        /\ \A r1, r2, c \in LinkPositions :
               TwoOutsOneIn(r1, r2, c) =>
                   /\ out_links[c] = r1 => DeadRow(r2)
                   /\ ~(FinalLabelAt(c) = FinalLabelAt(r1) /\ FinalLabelAt(c) = FinalLabelAt(r2))

\* C6 as amended: the assignment is one-to-one; the "out" segment that is
\* not linked to the "in" segment is dead or linked to another "in"; the
\* "in" segment shares its label only with segments that a chain of
\* accepted links joins to it
C6_MergeScenarioAmended ==
    Solved =>
        /\ OneToOne
        /\ \A r1, r2, c \in LinkPositions :
               (TwoOutsOneIn(r1, r2, c) /\ out_links[c] = r1) =>
                   \/ DeadRow(r2)
                   \/ \E c2 \in LinkPositions \ {c} : out_links[c2] = r2
        /\ \A a, b \in LinkPositions :
               FinalLabelAt(a) = FinalLabelAt(b) => b \in ChainFrom({a})

\* two "out" segments compete for one "in" segment, one link is accepted
C6_Witness ==
    /\ Solved
    /\ \E r1, r2, c \in LinkPositions :
           /\ TwoOutsOneIn(r1, r2, c)
           /\ out_links[c] = r1
           /\ DeadRow(r2)
           /\ FinalLabelAt(c) = FinalLabelAt(r1)
           /\ FinalLabelAt(c) # FinalLabelAt(r2)

\* every row and every column of the composite matrix is matched once
IsPermutation(links, m) == DOMAIN links = 1..m /\ Range(links) = 1..m

\* a matched cell lies in the lower right block of blocks_structure
InLowerRight(r, c) == r > NumSegments /\ c > NumSegments

RECURSIVE LinkCostUpTo(_)
LinkCostUpTo(c) ==
    IF c = 0 THEN 0
    ELSE (IF LinkedColumn(c) THEN 100 * link_mat[out_links[c]][c] ELSE 0)
             + LinkCostUpTo(c - 1)

\* cost of the matched LINK, BIRTH_ALT and DEATH_ALT cells, in hundredths
MatchedCost ==
    LinkCostUpTo(NumSegments)
        + alt_cost * Cardinality({c \in LinkPositions : ~LinkedColumn(c)})
        + alt_cost * Cardinality({r \in LinkPositions : DeadRow(r)})

\* every candidate matched to its own alternative
BaselineCost == 2 * NumSegments * alt_cost

\* a cost matrix with finite alternative costs has been solved
SolvedFinite == Solved /\ alt_cost # NaN

Alone(a) == ~LinkedColumn(a) /\ DeadRow(a)

\* C8: a segment matched to its own diagonal alternative, to which no other
\* segment is linked, ends with a label no other segment carries
C8_IndependentIdentity ==
    Solved =>
        \A a, b \in LinkPositions :
            (Alone(a) /\ a # b) => FinalLabelAt(a) # FinalLabelAt(b)

\* a segment left alone next to two segments that were linked
C8_Witness ==
    /\ Solved
    /\ \E a, b, c \in LinkPositions :
           /\ Alone(a)
           /\ LinkedColumn(c) /\ out_links[c] = b
           /\ FinalLabelAt(b) = FinalLabelAt(c)
           /\ FinalLabelAt(a) # FinalLabelAt(b)

UniqueOptimum == Cardinality(MinCostMatchings(link_mat, alt_cost)) = 1

Trajs == DOMAIN true_trajs

FramePairs == 0..(last_frame - 1)

\* the true displacement of trajectory i over the frame pair (t, t + 1)
TrueDisplacement(i, t) ==
    Abs(PositionAt(true_trajs[i], t + 1) - PositionAt(true_trajs[i], t))

\* max_speed is larger than every true per-frame displacement
FasterThanTruth ==
    \A i \in Trajs, t \in FramePairs : max_speed > TrueDisplacement(i, t)

\* two spots share a label if and only if they belong to the same true
\* trajectory
Reconstructed ==
    \A t, u \in 0..last_frame, i, j \in Trajs :
        (frame_label[t + 1][i] = frame_label[u + 1][j]) <=> (i = j)

\* C10 as stated: noise-free trajectories without missing detections,
\* linked with max_speed above every true displacement, are reconstructed
C10_ByFrameRoundTrip ==
    (pc = "linked" /\ FasterThanTruth) => Reconstructed

\* every spot of another trajectory in the next frame is out of reach
Separated ==
    \A i, j \in Trajs, t \in FramePairs :
        i # j => Abs(PositionAt(true_trajs[j], t + 1) - PositionAt(true_trajs[i], t))
                     > max_speed

\* linking a true displacement costs less than a death and a birth
LinkBeatsPenalty ==
    \A i \in Trajs, t \in FramePairs :
        TrueDisplacement(i, t) * TrueDisplacement(i, t) < 2 * penalty

\* C10 as amended: they are reconstructed when, in addition, no spot of
\* another trajectory is within max_speed in the next frame and the penalty
\* exceeds half of every squared true displacement
C10_ByFrameRoundTripAmended ==
    (pc = "linked" /\ FasterThanTruth /\ Separated /\ LinkBeatsPenalty)
        => Reconstructed

\* two moving, well separated trajectories were linked over all frames
C10_Witness ==
    /\ pc = "linked"
    /\ FasterThanTruth /\ Separated /\ LinkBeatsPenalty
    /\ Cardinality(Trajs) > 1
    /\ \E i \in Trajs : true_trajs[i].v # 0
    /\ Reconstructed

\* ------------------------------------------- ByFrameSolver, max_speed = 0
\* the frame pairs that have been solved, as positions of frame_links
SolvedPairs == DOMAIN frame_links

\* no link is accepted: every candidate takes its own alternative
NoLinkAccepted ==
    \A k \in SolvedPairs : frame_links[k] = do_nothing(Cardinality(Trajs))

\* every spot carries a label shared with no spot of another frame
NoLabelAcrossFrames ==
    \A t, u \in DOMAIN frame_label, i, j \in Trajs :
        t # u => frame_label[t][i] # frame_label[u][j]

\* C11 as stated: with max_speed = 0 track() completes, no link is
\* accepted in any frame pair and no label is shared between two frames
C11_ZeroSpeedNoLinks ==
    (pc = "linked" /\ max_speed = 0) => (NoLinkAccepted /\ NoLabelAcrossFrames)

\* no spot lies exactly where a spot of the previous frame lay
NoSpotInPlace ==
    \A i, j \in Trajs, t \in FramePairs :
        PositionAt(true_trajs[j], t + 1) # PositionAt(true_trajs[i], t)

\* C11 as amended: with max_speed = 0 no link is accepted and no label is
\* shared between two frames when no spot lies exactly where a spot of the
\* previous frame lay (a displacement of zero does not exceed the cutoff)
C11_ZeroSpeedNoLinksAmended ==
    (pc = "linked" /\ max_speed = 0 /\ NoSpotInPlace)
        => (NoLinkAccepted /\ NoLabelAcrossFrames)

\* two moving trajectories over three frames, max_speed = 0, a penalty
\* that a link would beat: every spot has a label of its own
C11_Witness ==
    /\ pc = "linked"
    /\ max_speed = 0
    /\ penalty > 0
    /\ NoSpotInPlace
    /\ Cardinality(Trajs) > 1
    /\ last_frame > 1
    /\ NoLinkAccepted
    /\ NoLabelAcrossFrames

\* ------------------------------------------------ ByFrameSolver progress
\* the percentage of update a is strictly below that of update b
PercentBelow(a, b) == a.num * b.den < b.num * a.den

\* C12: the frame pairs are solved in ascending order, each once; with
\* progress reporting the k-th update (from 0) reports t_in = k,
\* t_out = k + 1 and 100 * k / P percent, P the number of frame pairs, so
\* the percentages increase strictly and stay within 0..100; without
\* reporting nothing is written
C12_FrameOrderAndProgress ==
    /\ Len(frame_links) = t_in
    /\ Len(frame_label) = t_in + 1
    /\ t_in <= last_frame
    /\ pc = "linked" => t_in = last_frame
    /\ ~progress_bar => progress = <<>>
    /\ progress_bar =>
           /\ Len(progress) = t_in
           /\ \A k \in DOMAIN progress :
                  /\ progress[k].t_in = k - 1
                  /\ progress[k].t_out = k
                  /\ progress[k].num * last_frame = 100 * (k - 1) * progress[k].den
                  /\ 0 <= progress[k].num
                  /\ progress[k].num <= 100 * progress[k].den
           /\ \A k \in 1..(Len(progress) - 1) :
                  PercentBelow(progress[k], progress[k + 1])

\* track() has returned with one update written for each of several pairs
C12_Witness ==
    /\ pc = "linked"
    /\ progress_bar
    /\ last_frame > 1
    /\ Len(progress) = last_frame
    /\ progress[Len(progress)].t_out = last_frame

\* -------------------------------------------- ByFrameSolver, monotonicity
\* the numbers of links that a minimum-cost assignment of the frame pair
\* (t, t + 1) may accept when the cutoff is speed
PairCounts(t, speed) ==
    {accepted_links(l, Cardinality(Trajs)) :
        l \in solve(FrameLinkBlock(true_trajs, t, speed), 100 * penalty)}

SetMax(S) == CHOOSE m \in S : \A v \in S : v <= m

SetMin(S) == CHOOSE m \in S : \A v \in S : m <= v

\* the largest and the smallest number of links track() may accept over
\* the frame pairs 0..t-1 of the table when the cutoff is speed
RECURSIVE MaxTotal(_, _)
MaxTotal(t, speed) ==
    IF t = 0 THEN 0
    ELSE SetMax(PairCounts(t - 1, speed)) + MaxTotal(t - 1, speed)

RECURSIVE MinTotal(_, _)
MinTotal(t, speed) ==
    IF t = 0 THEN 0
    ELSE SetMin(PairCounts(t - 1, speed)) + MinTotal(t - 1, speed)

\* the number of links this run of track() accepted
RECURSIVE AcceptedUpTo(_)
AcceptedUpTo(k) ==
    IF k = 0 THEN 0
    ELSE accepted_links(frame_links[k], Cardinality(Trajs)) + AcceptedUpTo(k - 1)

AcceptedTotal == AcceptedUpTo(Len(frame_links))

IndexNames == {"t_stamp", "label", "t"}

ColumnNames == {"t", "x", "y", "z", "I"}

\* the index name lists a table may carry
IndexLists ==
    {<<>>} \cup {<<a>> : a \in IndexNames}
           \cup {<<a, b>> : a \in IndexNames, b \in IndexNames}

CoordsLists == {<<"x", "y", "z">>, <<"x", "y">>, <<"y", "x">>, <<>>}

\* index=['t_stamp', 'label']
required_index == <<"t_stamp", "label">>

\* columns=['t'] + coords, as the set check_trajs_df_structure makes of it
required_columns(cs) == {"t"} \cup Range(cs)

\* a message that lists only the names the table lacks
error_names_missing(required, given) == required \ given

\* what error_mess.format(...) lists: the names the check was called with
error_names(required, given) == required

InitConstruct ==
    /\ given_index \in IndexLists
    /\ given_columns \in SUBSET ColumnNames
    /\ coords \in CoordsLists
    /\ ctor_pc = "new"
    /\ ctor_error = NoError
    /\ cf_checked = FALSE
    /\ GapIdle
    /\ FrameIdle
    /\ OpsIdle
    /\ OioIdle
    /\ pc = "ready"

\* if index and self.index.names != index: raise ValueError
CheckIndexRaises ==
    /\ ctor_pc = "new"
    /\ given_index # required_index
    /\ ctor_pc' = "raised"
    /\ ctor_error' = [kind |-> "indexes",
                      names |-> error_names(Range(required_index),
                                            Range(given_index))]
    /\ UNCHANGED <<given_index, given_columns, coords, cf_checked>>
    /\ UNCHANGED beside_ctor

\* if not columns.issubset(set(self.columns)): raise ValueError
CheckColumnsRaises ==
    /\ ctor_pc = "new"
    /\ given_index = required_index
    /\ ~(required_columns(coords) \subseteq given_columns)
    /\ ctor_pc' = "raised"
    /\ ctor_error' = [kind |-> "columns",
                      names |-> error_names(required_columns(coords),
                                            given_columns)]
    /\ UNCHANGED <<given_index, given_columns, coords, cf_checked>>
    /\ UNCHANGED beside_ctor

\* the structure check passes: the cost functions are taken and checked
Construct ==
    /\ ctor_pc = "new"
    /\ given_index = required_index
    /\ required_columns(coords) \subseteq given_columns
    /\ ctor_pc' = "constructed"
    /\ cf_checked' = TRUE
    /\ UNCHANGED <<given_index, given_columns, coords, ctor_error>>
    /\ UNCHANGED beside_ctor

NextConstruct ==
    \/ CheckIndexRaises
    \/ CheckColumnsRaises
    \/ Construct

SpecConstruct == InitConstruct /\ [][NextConstruct]_vars

\* the index names are not exactly ['t_stamp', 'label'] in that order
BadIndex == given_index # <<"t_stamp", "label">>

\* the names of ['t'] + coords that the table lacks
MissingColumns == ({"t"} \cup Range(coords)) \ given_columns

\* the required index names that the table lacks
MissingIndex == {"t_stamp", "label"} \ Range(given_index)

\* C14: a table with a wrong index or a missing column makes the
\* constructor fail, before any cost function is used, with an error that
\* lists the missing index names or the missing column names; a table with
\* the required structure is accepted whatever the order of its columns
C14_StructureError ==
    ctor_pc # "new" =>
        /\ (BadIndex \/ MissingColumns # {}) <=> ctor_pc = "raised"
        /\ ctor_pc = "raised" => ~cf_checked
        /\ (ctor_pc = "raised" /\ BadIndex)
               => (ctor_error.kind = "indexes" /\ ctor_error.names = MissingIndex)
        /\ (ctor_pc = "raised" /\ ~BadIndex)
               => (ctor_error.kind = "columns" /\ ctor_error.names = MissingColumns)

\* what holds of the error: it lists the names the check requires, and the
\* names the table lacks are among them
C14_ListsRequired ==
    ctor_pc # "new" =>
        /\ (BadIndex \/ MissingColumns # {}) <=> ctor_pc = "raised"
        /\ ctor_pc = "raised" => ~cf_checked
        /\ (ctor_pc = "raised" /\ BadIndex)
               => (ctor_error.kind = "indexes" /\ MissingIndex \subseteq ctor_error.names)
        /\ (ctor_pc = "raised" /\ ~BadIndex)
               => (ctor_error.kind = "columns" /\ MissingColumns \subseteq ctor_error.names)

\* ------------------------------------------- Trajectories operations
\* Rows of the tables the operations act on: the index key (t, label), the
\* coordinate column x and the time column 'time' (the column 't').

MaxRows == 4
MaxFactor == 2
MaxOther == 2

KeyOf(r) == <<r.t, r.label>>

\* the tables the operations are called on: every input table, each
\* record with a coordinate and a time
OpRows ==
    {[i \in DOMAIN rows |->
         [t |-> rows[i].t, label |-> rows[i].label,
          x |-> rows[i].label + 1, time |-> rows[i].t]] :
        rows \in {r \in InputRows : Len(r) <= MaxRows}}

\* DataFrame.drop(spots): the rows whose key is not in spots
drop_spots(rows, spots) == SelectSeq(rows, LAMBDA r : KeyOf(r) \notin spots)

\* DataFrame.drop(segments_idx, level='label')
drop_segments(rows, segments_idx) ==
    SelectSeq(rows, LAMBDA r : r.label \notin Range(segments_idx))

\* merge_segments up to the second sortlevel: the records of labels[1:]
\* take labels[0], the index is sorted
merge_segments_relabel(rows, lbls) ==
    LET sorted == sort_index(rows)
        moved == [i \in DOMAIN sorted |->
                     IF \E k \in 2..Len(lbls) : lbls[k] = sorted[i].label
                     THEN [sorted[i] EXCEPT !.label = lbls[1]]
                     ELSE sorted[i]]
    IN  sort_index(moved)

\* groupby(level=['t_stamp', 'label']).apply(lambda x: x.iloc[0]): the
\* first record of each key, in key order
first_of_each_key(rows) ==
    LET firsts == {i \in DOMAIN rows :
                      \A j \in 1..(i - 1) : KeyOf(rows[j]) # KeyOf(rows[i])}
    IN  sort_index([k \in 1..Cardinality(firsts) |-> rows[Nth(firsts, k)]])

\* cut_segments: the records of the label after t_stamp take max + 1
cut_segments_rows(rows, spot) ==
    LET sorted == sort_index(rows)
        cut_label == SeqMax(LabelValues(sorted)) + 1
        moved == [i \in DOMAIN sorted |->
                     IF sorted[i].t > spot[1] /\ sorted[i].label = spot[2]
                     THEN [sorted[i] EXCEPT !.label = cut_label]
                     ELSE sorted[i]]
    IN  sort_index(moved)

KeyTime(r) == <<r.t, 0>>

\* reverse: t_stamp and the time column change sign, sort on t_stamp
reverse_rows(rows) ==
    LET negated == [i \in DOMAIN rows |->
                       [rows[i] EXCEPT !.t = -rows[i].t, !.time = -rows[i].time]]
    IN  StableSort(negated, KeyTime)

\* duplicate_segments: the records of the label once more under max + 1
duplicate_segments_rows(rows, label) ==
    LET new_label == SeqMax(labels(rows)) + 1
        segment == SelectSeq(rows, LAMBDA r : r.label = label)
        new_segment == [i \in DOMAIN segment |->
                           [segment[i] EXCEPT !.label = new_label]]
    IN  sort_index(rows \o new_segment)

\* the rows with the column 'id' that merge(traj, id) adds
WithId(rows, id) ==
    [i \in DOMAIN rows |->
        [t |-> rows[i].t, label |-> rows[i].label, x |-> rows[i].x,
         time |-> rows[i].time, id |-> id]]

\* a merge that leaves the labels of self where they are
merge_rows_unmoved(self_rows, traj_rows) ==
    sort_index(relabel_fromzero(WithId(self_rows, 1) \o WithId(traj_rows, 2)))

\* merge(traj, id=(1, 2)): the labels of self that traj carries as well move
\* past the highest label, the concatenation is relabelled from zero in
\* order of first appearance and sorted
merge_rows(self_rows, traj_rows) ==
    LET self_label == Range(LabelValues(self_rows))
        traj_label == Range(LabelValues(traj_rows))
        same_labels == self_label \cap traj_label
        new_label_start == SeqMax(Ascending(self_label \cup traj_label)) + 1
        replaced(l) ==
            IF l \in same_labels
            THEN new_label_start + Cardinality({m \in same_labels : m < l})
            ELSE l
        moved == [i \in DOMAIN self_rows |->
                     [self_rows[i] EXCEPT !.label = replaced(self_rows[i].label)]]
        new_trajs == WithId(moved, 1) \o WithId(traj_rows, 2)
    IN  sort_index(relabel_fromzero(new_trajs))

\* scale: the coordinate column multiplied by the factor
scale_rows(rows, factor) ==
    [i \in DOMAIN rows |-> [rows[i] EXCEPT !.x = rows[i].x * factor]]

\* a copy() that hands back the receiver itself
copy_alias(h) == [heap |-> h, id |-> 1]

\* Trajectories.copy(): a new object holding the receiver's table
copy(h) == [heap |-> Append(h, h[1]), id |-> Len(h) + 1]

\* `trajs = self` when inplace, `trajs = self.copy()` otherwise
working_object(h, inplace) == IF inplace THEN [heap |-> h, id |-> 1] ELSE copy(h)

\* an in-place change of the object `id`
store(h, id, rows) == [h EXCEPT ![id] = rows]

\* the value handed back by `return None if inplace else trajs`
returned_object(id, inplace) == IF inplace THEN None ELSE id

InitOps ==
    /\ heap \in {<<rows>> : rows \in OpRows}
    /\ op_self = heap[1]
    /\ op_call = NoCall
    /\ op_ret = None
    /\ op_pc = "start"
    /\ pc = "ready"
    /\ GapIdle
    /\ FrameIdle
    /\ CtorIdle
    /\ OioIdle

KeysOf(rows) == {KeyOf(rows[i]) : i \in DOMAIN rows}
SpotArgs == Frames \X (0..MaxLabel)

Called(name, inplace, arg) ==
    op_call' = [name |-> name, inplace |-> inplace, arg |-> arg]

\* an exception leaves every object as it was
Raises ==
    /\ op_pc' = "raised"
    /\ op_ret' = None
    /\ UNCHANGED <<heap, op_self>>

Returns(h, ret) ==
    /\ op_pc' = "returned"
    /\ heap' = h
    /\ op_ret' = ret
    /\ UNCHANGED op_self

\* remove_spots(spots, inplace): Trajectories(self.drop(spots, inplace))
remove_spots ==
    /\ op_pc = "start"
    /\ \E spot \in SpotArgs, inplace \in BOOLEAN :
          /\ Called("remove_spots", inplace, spot)
          /\ IF spot \notin KeysOf(heap[1])
             THEN Raises
             ELSE LET dropped == drop_spots(heap[1], {spot})
                  IN  IF inplace
                      THEN Returns(Append(store(heap, 1, dropped), <<>>), 2)
                      ELSE Returns(Append(heap, dropped), 2)
    /\ UNCHANGED beside_ops

\* remove_segments(segments_idx, inplace)
remove_segments ==
    /\ op_pc = "start"
    /\ \E label \in 0..MaxLabel, inplace \in BOOLEAN :
          /\ Called("remove_segments", inplace, <<label>>)
          /\ IF label \notin Range(LabelValues(heap[1]))
             THEN Raises
             ELSE LET dropped == drop_segments(heap[1], <<label>>)
                  IN  IF inplace
                      THEN Returns(Append(store(heap, 1, dropped), <<>>), 2)
                      ELSE Returns(Append(heap, dropped), 2)
    /\ UNCHANGED beside_ops

\* merge_segments(labels, inplace): the relabelling acts on the working
\* object, the removal of duplicate spots builds a new object
merge_segments ==
    /\ op_pc = "start"
    /\ \E a \in Range(LabelValues(heap[1])), b \in Range(LabelValues(heap[1])),
          inplace \in BOOLEAN :
          LET w == working_object(heap, inplace)
              relabeled == merge_segments_relabel(w.heap[w.id], <<a, b>>)
              h == Append(store(w.heap, w.id, relabeled),
                          first_of_each_key(relabeled))
          IN  /\ Called("merge_segments", inplace, <<a, b>>)
              /\ Returns(h, returned_object(Len(h), inplace))
    /\ UNCHANGED beside_ops

\* cut_segments(spot, inplace); max() of no label raises
cut_segments ==
    /\ op_pc = "start"
    /\ \E spot \in SpotArgs, inplace \in BOOLEAN :
          /\ Called("cut_segments", inplace, spot)
          /\ IF heap[1] = <<>>
             THEN Raises
             ELSE LET w == working_object(heap, inplace)
                      h == store(w.heap, w.id, cut_segments_rows(w.heap[w.id], spot))
                  IN  Returns(h, returned_object(w.id, inplace))
    /\ UNCHANGED beside_ops

\* reverse(time_column, inplace)
reverse ==
    /\ op_pc = "start"
    /\ \E inplace \in BOOLEAN :
          LET w == working_object(heap, inplace)
              h == store(w.heap, w.id, reverse_rows(w.heap[w.id]))
          IN  /\ Called("reverse", inplace, <<>>)
              /\ Returns(h, returned_object(w.id, inplace))
    /\ UNCHANGED beside_ops

\* the index after set_index('new_label', append=True) and
\* reset_index(level='label', drop=True), sorted
relabel_moved(rows, new_labels) ==
    sort_index([i \in DOMAIN rows |-> [rows[i] EXCEPT !.label = new_labels[i]]])

\* relabel_fromzero(level, inplace): the new labels are computed from the
\* receiver's index and stored in the working object
relabel_fromzero_object(h, self_id, inplace) ==
    LET w == IF inplace THEN [heap |-> h, id |-> self_id]
             ELSE [heap |-> Append(h, h[self_id]), id |-> Len(h) + 1]
    IN  [heap |-> store(w.heap, w.id, relabel_fromzero(h[self_id])),
         ret |-> returned_object(w.id, inplace)]

\* relabel(new_labels, inplace), new_labels one per record
relabel_op ==
    /\ op_pc = "start"
    /\ \E new_labels \in [DOMAIN heap[1] -> 0..MaxLabel], inplace \in BOOLEAN :
          LET w == working_object(heap, inplace)
              moved == store(w.heap, w.id, relabel_moved(w.heap[w.id], new_labels))
              r == relabel_fromzero_object(moved, w.id, inplace)
          IN  /\ Called("relabel", inplace, new_labels)
              /\ Returns(r.heap, r.ret)
    /\ UNCHANGED beside_ops

relabel_fromzero_op ==
    /\ op_pc = "start"
    /\ \E inplace \in BOOLEAN :
          LET r == relabel_fromzero_object(heap, 1, inplace)
          IN  /\ Called("relabel_fromzero", inplace, <<>>)
              /\ Returns(r.heap, r.ret)
    /\ UNCHANGED beside_ops

\* scale(factors, coords, inplace): a ValueError when the lengths differ,
\* the working object itself is returned
scale ==
    /\ op_pc = "start"
    /\ \E factors \in {<<f>> : f \in 0..MaxFactor} \cup {<<>>}, inplace \in BOOLEAN :
          /\ Called("scale", inplace, factors)
          /\ IF Len(factors) # 1
             THEN Raises
             ELSE LET w == working_object(heap, inplace)
                      h == store(w.heap, w.id, scale_rows(w.heap[w.id], factors[1]))
                  IN  Returns(h, w.id)
    /\ UNCHANGED beside_ops

\* duplicate_segments(label): always on a copy; max() of no label raises
duplicate_segments ==
    /\ op_pc = "start"
    /\ \E label \in 0..MaxLabel :
          /\ Called("duplicate_segments", FALSE, label)
          /\ IF heap[1] = <<>>
             THEN Raises
             ELSE LET c == copy(heap)
                      h == Append(c.heap, duplicate_segments_rows(c.heap[c.id], label))
                  IN  Returns(h, Len(h))
    /\ UNCHANGED beside_ops

\* merge(traj, id): self and traj are read through reset_index(), which
\* copies; the result is a new object
merge ==
    /\ op_pc = "start"
    /\ \E traj \in {r \in OpRows : Len(r) <= MaxOther} :
          LET h == Append(heap, merge_rows(heap[1], traj))
          IN  /\ Called("merge", FALSE, traj)
              /\ Returns(h, Len(h))
    /\ UNCHANGED beside_ops

NextOps ==
    \/ remove_spots
    \/ remove_segments
    \/ merge_segments
    \/ cut_segments
    \/ reverse
    \/ relabel_op
    \/ relabel_fromzero_op
    \/ scale
    \/ duplicate_segments
    \/ merge

SpecOps == InitOps /\ [][NextOps]_vars

\* ------------------------------------------------------------------
\* C15: an operation called with inplace=False leaves the receiver as it
\* was and returns a separate object that holds the modified table.
CalledCopying == op_pc = "returned" /\ ~op_call.inplace

\* the table the operation computes from the receiver's rows
Modified(rows, call) ==
    CASE call.name = "remove_spots" -> drop_spots(rows, {call.arg})
      [] call.name = "remove_segments" -> drop_segments(rows, call.arg)
      [] call.name = "merge_segments" ->
             first_of_each_key(merge_segments_relabel(rows, call.arg))
      [] call.name = "cut_segments" -> cut_segments_rows(rows, call.arg)
      [] call.name = "reverse" -> reverse_rows(rows)
      [] call.name = "relabel" ->
             relabel_fromzero(relabel_moved(rows, call.arg))
      [] call.name = "relabel_fromzero" -> relabel_fromzero(rows)
      [] call.name = "scale" -> scale_rows(rows, call.arg[1])
      [] call.name = "duplicate_segments" -> duplicate_segments_rows(rows, call.arg)
      [] call.name = "merge" -> merge_rows(rows, call.arg)

C15_CopyOnWrite ==
    CalledCopying =>
        /\ heap[1] = op_self
        /\ op_ret # None
        /\ op_ret # 1
        /\ heap[op_ret] = Modified(op_self, op_call)

\* a copying call whose result differs from the receiver's table
C15_Witness ==
    /\ CalledCopying
    /\ heap[1] = op_self
    /\ op_ret \notin {None, 1}
    /\ heap[op_ret] # op_self
    /\ op_call.name = "cut_segments"

\* ------------------------------------------------------------------
\* C16: a relabel given new labels under which two records of one t_stamp
\* receive the same label raises instead of returning, or leaving in
\* place, a table with duplicate (t_stamp, label) keys.
Collides(rows, new_labels) ==
    \E i \in DOMAIN rows, j \in DOMAIN rows :
        i # j /\ rows[i].t = rows[j].t /\ new_labels[i] = new_labels[j]

RelabelCollided ==
    /\ op_pc # "start"
    /\ op_call.name = "relabel"
    /\ Collides(op_self, op_call.arg)

C16_RelabelRaisesOnDuplicates == RelabelCollided => op_pc = "raised"

\* what the operation does instead: it returns, and the table it returns
\* or leaves in place has a duplicate key
C16_DuplicatesReturned ==
    RelabelCollided =>
        /\ op_pc = "returned"
        /\ HasDuplicateKey(heap[IF op_call.inplace THEN 1 ELSE op_ret])

\* ------------------------------------------------------------------
\* C17: in every composite matrix track() builds past the no-candidate
\* exit, each row and each column has a finite entry, the birth and death
\* alternative costs being finite, whatever the LINK block holds.
MatrixBuilt == pc = "returned" /\ link_mat # <<>>

\* a LINK row or column has its link cells and one diagonal alternative, a
\* birth row or a death column has its diagonal alternative only
C17_FiniteFallback ==
    MatrixBuilt =>
        /\ alt_cost # NaN
        /\ \A i \in DOMAIN link_mat :
              /\ alt_cost # NaN \/ \E c \in DOMAIN link_mat : link_mat[i][c] # NaN
              /\ alt_cost # NaN \/ \E r \in DOMAIN link_mat : link_mat[r][i] # NaN

\* the alternatives are finite whenever one LINK entry is
C17_FiniteWhenSomeLink ==
    (MatrixBuilt /\ FiniteCells(link_mat) # {}) => alt_cost # NaN

\* ------------------------------------------------------------------
\* C18: track() rewrites only the label key: the output has as many
\* records as the input, every record keeps its t_stamp and its payload,
\* none is duplicated or dropped, and the columns are those of the input.
\* The payload x of a record is distinct per (t_stamp, input segment).
Payloads(rows) == {<<rows[i].t, rows[i].x>> : i \in DOMAIN rows}

C18_OnlyLabelRewritten ==
    pc = "returned" =>
        /\ Len(trajs.rows) = Len(input.rows)
        /\ Payloads(trajs.rows) = Payloads(input.rows)
        /\ trajs.columns = input.columns

\* a returned track() that changed a label
C18_Witness ==
    /\ Solved
    /\ \E i \in DOMAIN trajs.rows : trajs.rows[i].label # trajs.rows[i].x
    /\ Len(trajs.rows) = Len(input.rows)
    /\ trajs.columns = input.columns

\* ------------------------------------------------------------------
\* C19: the LINK block is populated over the candidate pairs: every pair of
\* segments with gap <= 0 or gap >= maximum_gap is infeasible in it, and no
\* solved assignment merges two segments whose gap is outside
\* 0 < gap < maximum_gap.
OutsideWindow(r, c) ==
    <<labels(input.rows)[r], labels(input.rows)[c]>>
        \notin PairsInWindow(input.rows, maximum_gap)

CandidatesReturned == TrackEnded /\ context.set

IsStartKey(idx) == idx[1] = StartTime(input.rows, idx[2])
IsStopKey(idx) == idx[1] = StopTime(input.rows, idx[2])

C20_CandidateEndpoints ==
    CandidatesReturned =>
        \A k \in DOMAIN context.idxs_in :
            /\ IsStartKey(context.idxs_in[k])
            /\ IsStopKey(context.idxs_out[k])

\* ------------------------------------------------------------ ObjectsIO
MaxOps == 3
MaxValue == 2

\* the names objects are stored under
StoreNames == {"metadata", "name", "trajs"}

\* the keys of a metadata dict, in the order a Series sorts them
MetaKeyOrder == <<"FileName", "SizeT">>
MetaKeys == Range(MetaKeyOrder)
MetaValues == 1..MaxValue

\* the dicts over some of the keys
Dicts == UNION {[K -> MetaValues] : K \in SUBSET MetaKeys}

\* _serialize(attr): pd.Series(attr), the items in index order
serialize(attr) ==
    LET ks == SelectSeq(MetaKeyOrder, LAMBDA k : k \in DOMAIN attr)
    IN  [kind |-> "series", items |-> [i \in DOMAIN ks |-> <<ks[i], attr[ks[i]]>>]]

\* Series.to_dict()
to_dict(items) ==
    [k \in {items[i][1] : i \in DOMAIN items} |->
        (CHOOSE it \in Range(items) : it[1] = k)[2]]

\* a DataFrame, told from the others by one value
DataFrame(v) == [kind |-> "frame", items |-> <<<<"values", v>>>>]

\* the objects handed to oio[name] = obj: a DataFrame, a dict, or an
\* object of another type
Objects ==
    {[kind |-> "frame", v |-> v, d |-> <<>>] : v \in MetaValues} \cup
    {[kind |-> "dict", v |-> 0, d |-> d] :
        d \in {e \in Dicts : DOMAIN e = {"FileName"}}} \cup
    {[kind |-> "other", v |-> 0, d |-> <<>>]}

\* ObjectsIO.__setitem__: the file after new_store[name] = obj and the copy
\* back; an object that is no DataFrame, Series or dict is not stored
setitem(file, name, obj) ==
    LET put(content) ==
            [n \in DOMAIN file \cup {name} |->
                IF n = name THEN content ELSE file[n]]
    IN  CASE obj.kind = "frame" -> put(DataFrame(obj.v))
          [] obj.kind = "dict" -> put(serialize(obj.d))
          [] OTHER -> file

\* ObjectsIO.__getitem__: a Series comes back as a dict
getitem(file, name) ==
    IF file[name].kind = "series"
    THEN [kind |-> "dict", d |-> to_dict(file[name].items)]
    ELSE [kind |-> "frame", d |-> file[name].items]

\* the name store.remove() is called with in __delitem__
removed_name(name) == "name"

\* ObjectsIO.keys(): store.keys(), the paths of the stored objects
keys(file) == {<<"/", n>> : n \in DOMAIN file}

AsDict(d) == [kind |-> "dict", v |-> 0, d |-> d]

\* the state after ObjectsIO(metadata, store_path): OIOMetadata.__init__
\* has written the metadata; metadata['FileName'] must exist
InitStore ==
    /\ data \in {d \in Dicts : "FileName" \in DOMAIN d}
    /\ h5 = setitem(<<>>, "metadata", AsDict(data))
    /\ python \in {2, 3}
    /\ oio_log = <<>>
    /\ oio_raised = FALSE
    /\ pc = "ready"
    /\ GapIdle
    /\ FrameIdle
    /\ CtorIdle
    /\ OpsIdle

Logged(op, name) ==
    /\ Len(oio_log) < MaxOps
    /\ oio_log' = Append(oio_log, [op |-> op, name |-> name])

\* OIOMetadata.__setitem__: self.data[key] = value, then the write
MetaSetItem ==
    \E key \in MetaKeys, value \in MetaValues :
        /\ Logged("meta_set", key)
        /\ data' = [k \in DOMAIN data \cup {key} |->
                       IF k = key THEN value ELSE data[k]]
        /\ h5' = setitem(h5, "metadata", AsDict(data'))
        /\ oio_raised' = FALSE
        /\ UNCHANGED python
        /\ UNCHANGED beside_oio

\* OIOMetadata.update(dict), inherited from UserDict: Python 3 sets the
\* items one by one through __setitem__, Python 2 updates self.data itself
MetaUpdate ==
    \E d \in Dicts \ {<<>>} :
        /\ Logged("meta_update", "")
        /\ data' = [k \in DOMAIN data \cup DOMAIN d |->
                       IF k \in DOMAIN d THEN d[k] ELSE data[k]]
        /\ h5' = IF python = 3 THEN setitem(h5, "metadata", AsDict(data'))
                 ELSE h5
        /\ oio_raised' = FALSE
        /\ UNCHANGED python
        /\ UNCHANGED beside_oio

\* del metadata[key], inherited from UserDict: del self.data[key]
MetaDelItem ==
    \E key \in MetaKeys :
        /\ Logged("meta_del", key)
        /\ IF key \in DOMAIN data
           THEN /\ data' = [k \in DOMAIN data \ {key} |-> data[k]]
                /\ oio_raised' = FALSE
           ELSE /\ oio_raised' = TRUE
                /\ UNCHANGED data
        /\ UNCHANGED <<h5, python>>
        /\ UNCHANGED beside_oio

\* oio[name] = obj
StoreSetItem ==
    \E name \in StoreNames, obj \in Objects :
        /\ Logged(IF obj.kind = "other" THEN "set_other" ELSE "set", name)
        /\ h5' = setitem(h5, name, obj)
        /\ oio_raised' = FALSE
        /\ UNCHANGED <<data, python>>
        /\ UNCHANGED beside_oio

\* del oio[name]: store.remove raises KeyError for an absent name
StoreDelItem ==
    \E name \in StoreNames :
        /\ Logged("del", name)
        /\ IF removed_name(name) \in DOMAIN h5
           THEN /\ h5' = [n \in DOMAIN h5 \ {removed_name(name)} |-> h5[n]]
                /\ oio_raised' = FALSE
           ELSE /\ oio_raised' = TRUE
                /\ UNCHANGED h5
        /\ UNCHANGED <<data, python>>
        /\ UNCHANGED beside_oio

NextStore ==
    \/ MetaSetItem
    \/ MetaUpdate
    \/ MetaDelItem
    \/ StoreSetItem
    \/ StoreDelItem

SpecStore == InitStore /\ [][NextStore]_vars

\* ------------------------------------------------------------------
\* C21: after any sequence of modifications to the metadata mapping (item
\* assignment, update, item deletion), the 'metadata' object stored in the
\* HDF5 file equals the current in-memory metadata.
MetaOps == {"meta_set", "meta_update", "meta_del"}

OnlyMetadataModified == \A i \in DOMAIN oio_log : oio_log[i].op \in MetaOps

StoredMetadataCurrent ==
    /\ "metadata" \in DOMAIN h5
    /\ getitem(h5, "metadata") = [kind |-> "dict", d |-> data]

C21_MetadataWriteThrough == OnlyMetadataModified => StoredMetadataCurrent

\* item assignment alone is written through
C21_AssignmentWrittenThrough ==
    (\A i \in DOMAIN oio_log : oio_log[i].op = "meta_set")
        => StoredMetadataCurrent

\* ------------------------------------------------------------------
\* C22: starting from a table with unique (t_stamp, label) keys, after
\* merge_segments, cut_segments, duplicate_segments, reverse,
\* relabel_fromzero and merge, with either inplace setting, the resulting
\* table has no two records sharing (t_stamp, label).
KeyKeepingOps ==
    {"merge_segments", "cut_segments", "duplicate_segments", "reverse",
     "relabel_fromzero", "merge"}

\* the table the call results in: self when in place, else the one returned
ResultRows == heap[IF op_call.inplace THEN 1 ELSE op_ret]

KeyKeepingReturned ==
    /\ op_pc = "returned"
    /\ op_call.name \in KeyKeepingOps
    /\ ~HasDuplicateKey(op_self)

C22_KeysStayUnique == KeyKeepingReturned => ~HasDuplicateKey(ResultRows)

\* the calls that return the table they made keep the keys unique
C22_UniqueWhenCopied ==
    (KeyKeepingReturned /\ ~op_call.inplace) => ~HasDuplicateKey(ResultRows)

\* ------------------------------------------------------------------
\* C23: for merge_segments, cut_segments, reverse and relabel_fromzero the
\* call with inplace=True returns None and leaves the receiver equal to
\* the table that the same call with inplace=False returns.
TwoVariantOps == {"merge_segments", "cut_segments", "reverse", "relabel_fromzero"}

CalledInPlace ==
    /\ op_pc = "returned"
    /\ op_call.inplace
    /\ op_call.name \in TwoVariantOps

C23_VariantsAgree ==
    CalledInPlace =>
        /\ op_ret = None
        /\ heap[1] = Modified(op_self, op_call)

\* the three operations other than merge_segments agree
C23_AgreeButMergeSegments ==
    (CalledInPlace /\ op_call.name # "merge_segments") =>
        /\ op_ret = None
        /\ heap[1] = Modified(op_self, op_call)

\* ------------------------------------------------------------------
\* C24: relabel_fromzero() renumbers the labels to exactly 0..k-1, k the
\* number of distinct labels, in order of first appearance in row order;
\* two records share a label afterwards iff they did before, and no
\* t_stamp and no payload value changes.
RelabelledFromZero == op_pc = "returned" /\ op_call.name = "relabel_fromzero"

C24_RelabelFromZero ==
    RelabelledFromZero =>
        LET before == op_self
            after == ResultRows
            k == Cardinality(Range(LabelValues(before)))
        IN  /\ Len(after) = Len(before)
            /\ Range(LabelValues(after)) = 0..(k - 1)
            /\ labels(after) = [j \in 1..k |-> j - 1]
            /\ \A i \in DOMAIN before, j \in DOMAIN before :
                  (after[i].label = after[j].label)
                      <=> (before[i].label = before[j].label)
            /\ \A i \in DOMAIN before :
                  /\ after[i].t = before[i].t
                  /\ after[i].x = before[i].x
                  /\ after[i].time = before[i].time

\* a table whose labels are neither 0..k-1 nor first seen in ascending order
C24_Witness ==
    /\ RelabelledFromZero
    /\ labels(op_self) = <<2, 0>>
    /\ labels(ResultRows) = <<0, 1>>

\* ------------------------------------------------------------------
\* C25: merge(traj) never mixes labels: the result contains every record
\* of self and of traj, no label of the result is carried both by a record
\* from self and by a record from traj, two records of one input share a
\* label in the result iff they did in that input, and the labels of the
\* result are exactly 0..k-1, k = (labels of self) + (labels of traj).
Merged == op_pc = "returned" /\ op_call.name = "merge"

\* the records of the result that came from the input `id`
From(rows, id) == SelectSeq(rows, LAMBDA r : r.id = id)

\* a record of an input, and the label it carries in the result
LabelIn(result, id, r) ==
    (CHOOSE q \in Range(From(result, id)) : q.t = r.t /\ q.x = r.x).label

Spots(rows) == {<<rows[i].t, rows[i].x, rows[i].time>> : i \in DOMAIN rows}

KeepsPartition(result, id, rows) ==
    \A i \in DOMAIN rows, j \in DOMAIN rows :
        (LabelIn(result, id, rows[i]) = LabelIn(result, id, rows[j]))
            <=> (rows[i].label = rows[j].label)

C25_MergeKeepsLabelsApart ==
    Merged =>
        LET result == heap[op_ret]
            traj == op_call.arg
            k == Cardinality(Range(LabelValues(op_self)))
                   + Cardinality(Range(LabelValues(traj)))
        IN  /\ Len(result) = Len(op_self) + Len(traj)
            /\ Len(From(result, 1)) = Len(op_self)
            /\ Spots(From(result, 1)) = Spots(op_self)
            /\ Spots(From(result, 2)) = Spots(traj)
            /\ Range(LabelValues(From(result, 1)))
                   \cap Range(LabelValues(From(result, 2))) = {}
            /\ KeepsPartition(result, 1, op_self)
            /\ KeepsPartition(result, 2, traj)
            /\ Range(LabelValues(result)) = 0..(k - 1)

\* self and traj carry a common label, and self another one
C25_Witness ==
    /\ Merged
    /\ Range(LabelValues(op_self)) \cap Range(LabelValues(op_call.arg)) # {}
    /\ Cardinality(Range(LabelValues(op_self))) > 1
    /\ Cardinality(Range(LabelValues(heap[op_ret]))) > 2

\* ------------------------------------------------------------------
\* C26: _get_candidates() computes each pair's gap from the start and stop
\* frames of the segments that carry the two labels, for every table with
\* unique keys, whatever its labels and their order of first appearance;
\* it raises no index error and reads no other segment's bounds.
\* the entry of the bounds array that is read for the label at position i
BoundsRead(rows, i) == bounds(rows)[bounds_position(labels(rows), i)]

C26_GapsFromOwnSegments ==
    (TrackEnded /\ input.rows # <<>>) =>
        /\ context.set
        /\ \A i \in DOMAIN labels(input.rows) :
              BoundsRead(input.rows, i)
                  = <<StartTime(input.rows, labels(input.rows)[i]),
                      StopTime(input.rows, labels(input.rows)[i])>>

\* whenever _get_candidates returns, the bounds read are the segment's own
C26_OwnBoundsWhenReturned ==
    (TrackEnded /\ context.set) =>
        \A i \in DOMAIN labels(input.rows) :
            BoundsRead(input.rows, i)
                = <<StartTime(input.rows, labels(input.rows)[i]),
                    StopTime(input.rows, labels(input.rows)[i])>>

\* ------------------------------------------------------------------
\* C27: after any sequence of `oio[name] = obj` and `del oio[name]`,
\* keys() contains a name iff an object was stored under it ('metadata' at
\* construction included) and the name was not deleted afterwards.
\* the positions of the log at which an object is stored under the name;
\* 0 stands for the construction, which stores 'metadata'
StoredAt(n) ==
    {i \in DOMAIN oio_log :
        \/ oio_log[i].op = "set" /\ oio_log[i].name = n
        \/ n = "metadata" /\ oio_log[i].op = "meta_set"
        \/ n = "metadata" /\ oio_log[i].op = "meta_update" /\ python = 3}
        \cup (IF n = "metadata" THEN {0} ELSE {})

DeletedAfter(n, i) ==
    \E j \in DOMAIN oio_log :
        j > i /\ oio_log[j].op = "del" /\ oio_log[j].name = n

ShouldHold(n) == \E i \in StoredAt(n) : ~DeletedAfter(n, i)

C27_KeysAreStoredNames ==
    \A n \in StoreNames : (<<"/", n>> \in keys(h5)) <=> ShouldHold(n)

\* as long as nothing is deleted, keys() lists the names stored
C27_KeysWithoutDelete ==
    (\A i \in DOMAIN oio_log : oio_log[i].op # "del") =>
        \A n \in StoreNames : (<<"/", n>> \in keys(h5)) <=> ShouldHold(n)

====
